---- MODULE Spec2Model ----
(***************************************************************************)
(* The conversation state machine of the Zelash product-strategist chat    *)
(* (ChatInterfaceComponent in src/src/components/ChatInput.tsx) together   *)
(* with the string helpers its handlers use, and the model service it      *)
(* calls (src/unnamed/part_000): getClarifyingQuestions,                   *)
(* generateProductPlan and parsePlanFromGeminiResponse with its regular    *)
(* expressions and JSON.parse.                                             *)
(*                                                                         *)
(* A JavaScript string is a sequence of one-character strings, so that     *)
(* toLowerCase, trim, includes and the regular-expression replace are      *)
(* computed character by character.  Fixed sentences of the user           *)
(* interface are kept as a single fragment.                                *)
(*                                                                         *)
(* React state is read by a handler when the handler starts and written    *)
(* by the setters; the part of an async handler that follows an await is   *)
(* a separate step (CallSettles) that only has the locals captured before  *)
(* the await and the setters.                                              *)
(***************************************************************************)
EXTENDS Integers, Sequences, FiniteSets, TLC

\* ------------------------------------------------------------------ bounds

\* user texts submitted through the input box in one behaviour
MaxSends == 4
\* resets (clear or persona change) in one behaviour
MaxClears == 1
\* length of the longest question list the model returns
MaxQuestions == 2

\* ------------------------------------------------------------- characters

LowerAlphabet == <<"a", "b", "c", "d", "e", "f", "g", "h", "i", "j", "k", "l", "m", "n", "o", "p", "q", "r", "s", "t", "u", "v", "w", "x", "y", "z">>
UpperAlphabet == <<"A", "B", "C", "D", "E", "F", "G", "H", "I", "J", "K", "L", "M", "N", "O", "P", "Q", "R", "S", "T", "U", "V", "W", "X", "Y", "Z">>
DecimalDigits == <<"0", "1", "2", "3", "4", "5", "6", "7", "8", "9">>

ToLowerChar(c) ==
    IF \E i \in 1..26 : UpperAlphabet[i] = c
    THEN LowerAlphabet[CHOOSE i \in 1..26 : UpperAlphabet[i] = c]
    ELSE c

ToUpperChar(c) ==
    IF \E i \in 1..26 : LowerAlphabet[i] = c
    THEN UpperAlphabet[CHOOSE i \in 1..26 : LowerAlphabet[i] = c]
    ELSE c

\* String.prototype.toLowerCase
ToLowerCase(s) == [i \in 1..Len(s) |-> ToLowerChar(s[i])]

IsSpace(c) == c \in {" ", "\n", "\t", "\r"}

SetMin(S) == CHOOSE x \in S : \A y \in S : x <= y
SetMax(S) == CHOOSE x \in S : \A y \in S : x >= y

\* String.prototype.trim
Trim(s) ==
    LET solid == {i \in 1..Len(s) : ~IsSpace(s[i])}
    IN  IF solid = {} THEN <<>> ELSE SubSeq(s, SetMin(solid), SetMax(solid))

\* String.prototype.includes
Includes(s, sub) ==
    \E i \in 0..(Len(s) - Len(sub)) : SubSeq(s, i + 1, i + Len(sub)) = sub

\* decimal rendering of a number inside a template literal
RECURSIVE NumToString(_)
NumToString(n) ==
    IF n < 10 THEN <<DecimalDigits[n + 1]>>
    ELSE NumToString(n \div 10) \o <<DecimalDigits[(n % 10) + 1]>>

\* ---------------------------------------------------- regular expressions
\* A pattern is a sequence of items [chars, plus]: one character of the set
\* chars, or (plus) one or more of them, greedily.  No item of the patterns
\* below can start where a greedy run could end, so no backtracking is lost.

\* the literal characters of s under the i flag
LitCI(s) == [k \in 1..Len(s) |-> [chars |-> {ToLowerChar(s[k]), ToUpperChar(s[k])}, plus |-> FALSE]]
OneOrMore(S) == <<[chars |-> S, plus |-> TRUE]>>

RECURSIVE RunEnd(_, _, _)
\* first position at or after i whose character is not in S
RunEnd(s, i, S) == IF i <= Len(s) /\ s[i] \in S THEN RunEnd(s, i + 1, S) ELSE i

RECURSIVE MatchFrom(_, _, _, _)
\* the position after a match of items k.. of pat that starts at s[i]; 0 if none
MatchFrom(s, i, pat, k) ==
    IF k > Len(pat) THEN i
    ELSE IF i > Len(s) \/ s[i] \notin pat[k].chars THEN 0
    ELSE IF pat[k].plus THEN MatchFrom(s, RunEnd(s, i, pat[k].chars), pat, k + 1)
    ELSE MatchFrom(s, i + 1, pat, k + 1)

\* String.prototype.replace(regex, '') without the g flag
ReplaceFirst(s, pat) ==
    LET starts == {i \in 1..Len(s) : MatchFrom(s, i, pat, 1) # 0}
    IN  IF starts = {} THEN s
        ELSE LET b == SetMin(starts)
                 e == MatchFrom(s, b, pat, 1)
             IN  SubSeq(s, 1, b - 1) \o SubSeq(s, e, Len(s))

Backslash == <<"\\">>

\* /\\(Question \\d+ of \\d+\\) /i as written in handleAnswerSelect: every
\* "\\" is an escaped backslash, so the parentheses form a group and "d+" is
\* a run of the letter d.
progressLabelRegex ==
    LitCI(Backslash) \o LitCI(<<"Q", "u", "e", "s", "t", "i", "o", "n", " ">>)
    \o LitCI(Backslash) \o OneOrMore({"d", "D"})
    \o LitCI(<<" ", "o", "f", " ">>)
    \o LitCI(Backslash) \o OneOrMore({"d", "D"})
    \o LitCI(Backslash) \o LitCI(<<" ">>)

\* actualQuestionText of handleAnswerSelect
actualQuestionText(originalQuestionContentWithProgress) ==
    Trim(ReplaceFirst(originalQuestionContentWithProgress, progressLabelRegex))

\* `(Question ${k} of ${total})`
progressIndicator(k, total) ==
    <<"(", "Q", "u", "e", "s", "t", "i", "o", "n", " ">> \o NumToString(k)
    \o <<" ", "o", "f", " ">> \o NumToString(total) \o <<")">>

\* `${progressIndicator} ${questionText}`
questionContent(k, total, questionText) ==
    progressIndicator(k, total) \o <<" ">> \o questionText


\* ----------------------------------- regular expressions with backtracking
\* A pattern is a sequence of items [kind, chars, lit]: "one" is one character
\* of the set chars, "star" is zero or more of them (greedy, giving back one
\* at a time), "opt" is the literal lit or nothing (the literal tried first).

One(S) == <<[kind |-> "one", chars |-> S, lit |-> <<>>]>>
Star(S) == <<[kind |-> "star", chars |-> S, lit |-> <<>>]>>
Opt(l) == <<[kind |-> "opt", chars |-> {}, lit |-> l]>>

RECURSIVE RegexPath(_, _, _, _)
RECURSIVE StarPath(_, _, _, _, _)
\* the positions at which items k, k+1, ... of pat start in the first match,
\* in the engine's order of preference, that begins at s[i], followed by the
\* position after the match; <<>> if there is no match
RegexPath(s, i, pat, k) ==
    IF k > Len(pat) THEN <<i>>
    ELSE IF pat[k].kind = "one" THEN
        IF i <= Len(s) /\ s[i] \in pat[k].chars
        THEN LET rest == RegexPath(s, i + 1, pat, k + 1)
             IN  IF rest = <<>> THEN <<>> ELSE <<i>> \o rest
        ELSE <<>>
    ELSE IF pat[k].kind = "opt" THEN
        LET n == Len(pat[k].lit)
            taken == IF i + n - 1 <= Len(s) /\ SubSeq(s, i, i + n - 1) = pat[k].lit
                     THEN RegexPath(s, i + n, pat, k + 1)
                     ELSE <<>>
            skipped == RegexPath(s, i, pat, k + 1)
        IN  IF taken # <<>> THEN <<i>> \o taken
            ELSE IF skipped # <<>> THEN <<i>> \o skipped
            ELSE <<>>
    ELSE StarPath(s, i, pat, k, RunEnd(s, i, pat[k].chars) - i)

\* item k is a star that takes n characters, or fewer if the rest fails
StarPath(s, i, pat, k, n) ==
    LET rest == RegexPath(s, i + n, pat, k + 1)
    IN  IF rest # <<>> THEN <<i>> \o rest
        ELSE IF n = 0 THEN <<>>
        ELSE StarPath(s, i, pat, k, n - 1)

\* String.prototype.match(regex) without the g flag, for a pattern whose
\* capture group 1 spans items groupFirst..groupLast: found, match[0], match[1]
RegexMatch(s, pat, groupFirst, groupLast) ==
    LET starts == {i \in 1..(Len(s) + 1) : RegexPath(s, i, pat, 1) # <<>>}
    IN  IF starts = {} THEN [found |-> FALSE, all |-> <<>>, group1 |-> <<>>]
        ELSE LET path == RegexPath(s, SetMin(starts), pat, 1)
             IN  [found |-> TRUE,
                  all |-> SubSeq(s, path[1], path[Len(path)] - 1),
                  group1 |-> SubSeq(s, path[groupFirst], path[groupLast + 1] - 1)]

\* String.prototype.indexOf, counted from 0; -1 if sub does not occur
IndexOf(s, sub) ==
    LET at == {i \in 0..(Len(s) - Len(sub)) : SubSeq(s, i + 1, i + Len(sub)) = sub}
    IN  IF at = {} THEN -1 ELSE SetMin(at)

\* String.prototype.substring(from) and substring(0, to), counted from 0
SubstringFrom(s, from) == SubSeq(s, from + 1, Len(s))
SubstringTo(s, to) == SubSeq(s, 1, to)

\* ------------------------------------------------------------- JSON.parse
\* The grammar of JSON texts: objects, arrays, strings with escapes, numbers
\* and the three literals.  Each ...End operator gives the position after the
\* construct that starts at s[i], or 0 if there is none.

JsonSpace == {" ", "\n", "\t", "\r"}
JsonDigits == {"0", "1", "2", "3", "4", "5", "6", "7", "8", "9"}
JsonHex == JsonDigits \cup {"a", "b", "c", "d", "e", "f", "A", "B", "C", "D", "E", "F"}

SkipSpace(s, i) == RunEnd(s, i, JsonSpace)

\* s has the characters of lit at position i
HasAt(s, i, lit) == i + Len(lit) - 1 <= Len(s) /\ SubSeq(s, i, i + Len(lit) - 1) = lit

RECURSIVE JsonStringEnd(_, _)
\* i is the position after the opening quote
JsonStringEnd(s, i) ==
    IF i > Len(s) THEN 0
    ELSE IF s[i] = "\"" THEN i + 1
    ELSE IF s[i] \in {"\n", "\t", "\r"} THEN 0
    ELSE IF s[i] = "\\" THEN
        IF i + 1 > Len(s) THEN 0
        ELSE IF s[i + 1] \in {"\"", "\\", "/", "b", "f", "n", "r", "t"} THEN JsonStringEnd(s, i + 2)
        ELSE IF s[i + 1] = "u" /\ i + 5 <= Len(s) /\ \A k \in (i + 2)..(i + 5) : s[k] \in JsonHex
             THEN JsonStringEnd(s, i + 6)
        ELSE 0
    ELSE JsonStringEnd(s, i + 1)

\* a run of at least one digit that starts at i
DigitsEnd(s, i) == IF RunEnd(s, i, JsonDigits) > i THEN RunEnd(s, i, JsonDigits) ELSE 0

JsonNumberEnd(s, i) ==
    LET afterSign == IF i <= Len(s) /\ s[i] = "-" THEN i + 1 ELSE i
        afterInt == IF afterSign <= Len(s) /\ s[afterSign] = "0" THEN afterSign + 1
                    ELSE DigitsEnd(s, afterSign)
        afterFrac == IF afterInt = 0 THEN 0
                     ELSE IF afterInt <= Len(s) /\ s[afterInt] = "." THEN DigitsEnd(s, afterInt + 1)
                     ELSE afterInt
        expSign == IF afterFrac + 1 <= Len(s) /\ s[afterFrac + 1] \in {"+", "-"}
                   THEN afterFrac + 2 ELSE afterFrac + 1
    IN  IF afterFrac = 0 THEN 0
        ELSE IF afterFrac <= Len(s) /\ s[afterFrac] \in {"e", "E"} THEN DigitsEnd(s, expSign)
        ELSE afterFrac

RECURSIVE JsonValueEnd(_, _)
RECURSIVE JsonMembersEnd(_, _)
RECURSIVE JsonElementsEnd(_, _)

JsonValueEnd(s, i) ==
    IF i > Len(s) THEN 0
    ELSE IF s[i] = "{" THEN
        LET j == SkipSpace(s, i + 1)
        IN  IF j <= Len(s) /\ s[j] = "}" THEN j + 1 ELSE JsonMembersEnd(s, j)
    ELSE IF s[i] = "[" THEN
        LET j == SkipSpace(s, i + 1)
        IN  IF j <= Len(s) /\ s[j] = "]" THEN j + 1 ELSE JsonElementsEnd(s, j)
    ELSE IF s[i] = "\"" THEN JsonStringEnd(s, i + 1)
    ELSE IF s[i] \in JsonDigits \cup {"-"} THEN JsonNumberEnd(s, i)
    ELSE IF HasAt(s, i, <<"t", "r", "u", "e">>) THEN i + 4
    ELSE IF HasAt(s, i, <<"f", "a", "l", "s", "e">>) THEN i + 5
    ELSE IF HasAt(s, i, <<"n", "u", "l", "l">>) THEN i + 4
    ELSE 0

\* "key" : value, then "," and more members or "}"
JsonMembersEnd(s, i) ==
    IF i > Len(s) \/ s[i] # "\"" THEN 0
    ELSE LET k == JsonStringEnd(s, i + 1)
             c == IF k = 0 THEN 0 ELSE SkipSpace(s, k)
             v == IF c = 0 \/ c > Len(s) \/ s[c] # ":" THEN 0
                  ELSE JsonValueEnd(s, SkipSpace(s, c + 1))
             e == IF v = 0 THEN 0 ELSE SkipSpace(s, v)
         IN  IF e = 0 \/ e > Len(s) THEN 0
             ELSE IF s[e] = "}" THEN e + 1
             ELSE IF s[e] = "," THEN JsonMembersEnd(s, SkipSpace(s, e + 1))
             ELSE 0

\* value, then "," and more elements or "]"
JsonElementsEnd(s, i) ==
    LET v == JsonValueEnd(s, i)
        e == IF v = 0 THEN 0 ELSE SkipSpace(s, v)
    IN  IF e = 0 \/ e > Len(s) THEN 0
        ELSE IF s[e] = "]" THEN e + 1
        ELSE IF s[e] = "," THEN JsonElementsEnd(s, SkipSpace(s, e + 1))
        ELSE 0

\* JSON.parse(s) returns a value (it does not throw)
JsonParses(s) ==
    LET v == JsonValueEnd(s, SkipSpace(s, 1))
    IN  v # 0 /\ SkipSpace(s, v) = Len(s) + 1

RECURSIVE JsonCompact(_, _, _)
\* the text of s from position i on without the white space between tokens
JsonCompact(s, i, inString) ==
    IF i > Len(s) THEN <<>>
    ELSE IF inString THEN
        IF s[i] = "\\" /\ i + 1 <= Len(s)
        THEN <<s[i], s[i + 1]>> \o JsonCompact(s, i + 2, TRUE)
        ELSE <<s[i]>> \o JsonCompact(s, i + 1, s[i] # "\"")
    ELSE IF s[i] \in JsonSpace THEN JsonCompact(s, i + 1, FALSE)
    ELSE <<s[i]>> \o JsonCompact(s, i + 1, s[i] = "\"")

\* A plan's json in one shape: the value JSON.parse returned, written as its
\* text without white space, or the error marker (its details field, the
\* message of the engine's exception, is left out), or no json at all.
NoJson == [error |-> "", originalJsonString |-> <<>>, value |-> <<>>]
JsonValue(s) == [error |-> "", originalJsonString |-> <<>>, value |-> JsonCompact(s, 1, FALSE)]
errorJson(planJsonString) ==
    [error |-> "Failed to parse JSON plan", originalJsonString |-> planJsonString, value |-> <<>>]

\* --------------------------------------------- parsePlanFromGeminiResponse

\* the character U+0060, which a TLA+ string cannot hold
Backtick == "backtick"

\* /(?:```json)?\\s*(\\{\\s*[\\s\\S]*\\s*\\})\\s*(?:```)?/m as written: every
\* "\\" is an escaped backslash, so "s*" is a run of the letter s, the braces
\* are literal characters that follow a backslash, and the class holds the
\* backslash, "s" and "S".  The capture group spans items 4 to 12.
jsonBlockRegex ==
    Opt(<<Backtick, Backtick, Backtick, "j", "s", "o", "n">>)
    \o One({"\\"}) \o Star({"s"})
    \o One({"\\"}) \o One({"{"}) \o One({"\\"}) \o Star({"s"})
    \o Star({"\\", "s", "S"})
    \o One({"\\"}) \o Star({"s"}) \o One({"\\"}) \o One({"}"})
    \o One({"\\"}) \o Star({"s"})
    \o Opt(<<Backtick, Backtick, Backtick>>)

\* /(\\{\\s*[\\s\\S]*\\s*\\})/m as written; the group spans items 1 to 9
fallbackJsonRegex ==
    One({"\\"}) \o One({"{"}) \o One({"\\"}) \o Star({"s"})
    \o Star({"\\", "s", "S"})
    \o One({"\\"}) \o Star({"s"}) \o One({"\\"}) \o One({"}"})

\* parts.map(p => p.text || "").join("")
RECURSIVE JoinParts(_)
JoinParts(parts) == IF parts = <<>> THEN <<>> ELSE Head(parts) \o JoinParts(Tail(parts))

\* a thrown Error: the promise of the caller rejects
Threw == [ok |-> FALSE, planText |-> <<>>, planJson |-> NoJson]

\* the if branch: the primary regex found a block
planTextAroundBlock(combinedText, match) ==
    LET jsonStartIndex == IndexOf(combinedText, match.all)
        before == Trim(SubstringTo(combinedText, jsonStartIndex))
        textAfterJson == Trim(SubstringFrom(combinedText, jsonStartIndex + Len(match.all)))
    IN  IF before # <<>> THEN before
        ELSE IF jsonStartIndex = 0 /\ textAfterJson # <<>> THEN textAfterJson
        ELSE <<"Here is the structured product plan:">>

\* the else branch with combinedText.trim() replaced by combinedText and
\* without the fallback search
fallbackExtraction_Untrimmed(combinedText) ==
    [planJsonString |-> <<"{", "}">>, planText |-> combinedText]

\* the else branch: the whole reply is the text, and a block found by the
\* simpler regex is used if JSON.parse accepts it
fallbackExtraction(combinedText) ==
    LET whole == Trim(combinedText)
        fallbackJsonMatch == RegexMatch(combinedText, fallbackJsonRegex, 1, 9)
        planJsonString == Trim(fallbackJsonMatch.group1)
        heuristicJsonStartIndex == IndexOf(whole, planJsonString)
        textAfterFallbackJson == Trim(SubstringFrom(combinedText, Len(planJsonString)))
    IN  IF fallbackJsonMatch.found /\ fallbackJsonMatch.group1 # <<>>
           /\ JsonParses(fallbackJsonMatch.group1)
        THEN [planJsonString |-> planJsonString,
              planText |-> IF heuristicJsonStartIndex > 0
                           THEN Trim(SubstringTo(whole, heuristicJsonStartIndex))
                           ELSE IF heuristicJsonStartIndex = 0
                           THEN IF textAfterFallbackJson # <<>> THEN textAfterFallbackJson
                                ELSE <<"Here is the structured product plan:">>
                           ELSE whole]
        ELSE [planJsonString |-> <<"{", "}">>, planText |-> whole]

\* responseData is [candidates, parts, safetyRatings]: the number of
\* candidates, the texts of the parts of the first one, and the probability
\* of each of its safety ratings; the parser never reads safetyRatings
parsePlanFromGeminiResponse(responseData) ==
    IF responseData.candidates = 0 \/ Len(responseData.parts) = 0 THEN Threw
    ELSE
        LET combinedText == JoinParts(responseData.parts)
            match == RegexMatch(combinedText, jsonBlockRegex, 4, 12)
            extracted == IF match.found /\ match.group1 # <<>>
                         THEN [planJsonString |-> Trim(match.group1),
                               planText |-> planTextAroundBlock(combinedText, match)]
                         ELSE fallbackExtraction(combinedText)
        IN  IF JsonParses(extracted.planJsonString)
            THEN [ok |-> TRUE,
                  planText |-> IF extracted.planText # <<>> THEN extracted.planText
                               ELSE <<"Generated plan details below:">>,
                  planJson |-> JsonValue(extracted.planJsonString)]
            ELSE IF extracted.planText # <<>>
            THEN [ok |-> TRUE, planText |-> extracted.planText,
                  planJson |-> errorJson(extracted.planJsonString)]
            ELSE Threw

\* generateProductPlan and reviseProductPlan after the request was sent: fetch
\* rejects, the status is not 2xx, or the body goes to the parser
generateProductPlan(reply) ==
    IF reply.network = "failed" THEN Threw
    ELSE IF ~reply.ok THEN Threw
    ELSE parsePlanFromGeminiResponse(reply.responseData)

\* ------------------------------------------------------------ input values

\* texts typed by the user: an idea that passes validation; an acceptance,
\* which as an idea is too vague; a change request, which as an idea is too
\* complex
IdeaText == <<"B", "u", "i", "l", "d", " ", "a", " ", "t", "o", "d", "o", " ", "a", "p", "p">>
AcceptText == <<"L", "o", "o", "k", "s", " ", "g", "o", "o", "d">>
FeedbackText == <<"a", "d", "d", " ", "a", " ", "C", "r", "y", "p", "t", "o", " ", "w", "a", "l", "l", "e", "t">>
UserTexts == {IdeaText, AcceptText, FeedbackText}

\* idea texts for the validation: "blockchain" in three capitalizations at
\* the start, in the middle and at the end of a longer text, and alone; short
\* texts in two capitalizations and one padded with white space; texts of 14,
\* 15 and 16 characters
BlockchainWords == {<<"b", "l", "o", "c", "k", "c", "h", "a", "i", "n">>, <<"B", "L", "O", "C", "K", "C", "H", "A", "I", "N">>, <<"B", "l", "o", "c", "k", "C", "h", "a", "i", "n">>}
IdeaPrefixes == {<<>>, <<"A", " ", "s", "h", "o", "p", " ", "o", "n", " ">>}
IdeaSuffix == <<" ", "f", "o", "r", " ", "s", "h", "o", "p", "s">>
ShortTexts == {<<"T", "O", "D", "O", " ", "A", "P", "P">>, <<"T", "o", "d", "o", " ", "A", "p", "p">>, <<" ", " ", " ", " ", "t", "o", "d", "o", " ", "a", "p", "p", " ", " ", " ", " ", " ", " ">>}
EdgeTexts == {<<"B", "u", "i", "l", "d", " ", "a", " ", "t", "o", "d", "o", " ", "a">>, <<"B", "u", "i", "l", "d", " ", "a", " ", "t", "o", "d", "o", " ", "a", "p">>, IdeaText}
IdeaTexts ==
    { prefix \o word \o IdeaSuffix : prefix \in IdeaPrefixes, word \in BlockchainWords }
    \cup { <<"A", " ", "s", "h", "o", "p", " ", "o", "n", " ">> \o <<"B", "L", "O", "C", "K", "C", "H", "A", "I", "N">> }
    \cup BlockchainWords \cup ShortTexts \cup EdgeTexts

\* question texts the model writes
FirstQuestionText == <<"A", "?">>
OtherQuestionText == <<"B", "?">>
QuestionTexts == {FirstQuestionText, OtherQuestionText}
\* parsedJson.questions of a successful reply: the empty list and every list,
\* repeats included, up to the renaming of the two texts
QuestionLists ==
    {q \in UNION {[1..n -> QuestionTexts] : n \in 0..MaxQuestions} :
        q = <<>> \/ q[1] = FirstQuestionText}

\* the pieces of the text the model writes as a plan: a narrative or none, a
\* brace-delimited block that is a JSON object, is not one, or is written
\* with a backslash before each brace, and a trailing note or none
Narratives == {<<>>, <<"S", "u", "m", "m", "a", "r", "y", " ", "h", "e", "r", "e", ".">>, <<"S", "o", "m", "e", " ", "t", "e", "x", "t">>}
ValidBlocks == {<<"{", "\"", "a", "\"", ":", "1", "}">>, <<"{", " ", "\"", "a", "\"", ":", " ", "{", "\"", "b", "\"", ":", " ", "\"", "c", "\"", "}", " ", "}">>}
MalformedBlocks == {<<"{", "n", "o", "t", " ", "v", "a", "l", "i", "d", " ", "j", "s", "o", "n", "}">>}
EscapedBlocks == {<<"\\", "{", "\\", "\\", "\\", "}">>, <<"\\", "\\", "{", "\\", "\\", "\\", "}", "\\">>}
JsonBlocks == ValidBlocks \cup MalformedBlocks \cup EscapedBlocks
Trailers == {<<>>, <<"T", "r", "a", "i", "l", "i", "n", "g", " ", "n", "o", "t", "e", ".">>}

FenceOpen == <<Backtick, Backtick, Backtick, "j", "s", "o", "n">>
FenceClose == <<Backtick, Backtick, Backtick>>

\* combinedText: the pieces on lines of their own, the block inside a fence
\* or bare
planReplyText(narrative, fenced, block, trailer) ==
    (IF narrative = <<>> THEN <<>> ELSE narrative \o <<"\n">>)
    \o (IF fenced THEN FenceOpen \o <<"\n">> \o block \o <<"\n">> \o FenceClose ELSE block)
    \o (IF trailer = <<>> THEN <<>> ELSE <<"\n">> \o trailer)

\* the probabilities of the safety ratings of a candidate: unremarkable
\* ones, and ones with a value beyond LOW
CleanRatings == <<"NEGLIGIBLE", "LOW">>
FlaggedRatings == {<<"NEGLIGIBLE", "HIGH">>, <<"MEDIUM">>}

\* a 2xx response whose first candidate has the text in one part and the
\* given safety ratings
RatedReply(text, ratings) ==
    [network |-> "ok", ok |-> TRUE,
     responseData |-> [candidates |-> 1, parts |-> <<text>>, safetyRatings |-> ratings]]

\* a 2xx response whose first candidate has the text in one part
OkReply(text) == RatedReply(text, CleanRatings)

\* fetch rejects; a non-2xx response; a 2xx response without candidates
FailedReplies ==
    { [network |-> "failed", ok |-> FALSE, responseData |-> [candidates |-> 0, parts |-> <<>>, safetyRatings |-> <<>>]],
      [network |-> "ok", ok |-> FALSE, responseData |-> [candidates |-> 0, parts |-> <<>>, safetyRatings |-> <<>>]],
      [network |-> "ok", ok |-> TRUE, responseData |-> [candidates |-> 0, parts |-> <<>>, safetyRatings |-> <<>>]] }

\* the narrative with a fenced JSON object of the first reply below
PlanReplyText == planReplyText(<<"S", "u", "m", "m", "a", "r", "y", " ", "h", "e", "r", "e", ".">>, TRUE, <<"{", "\"", "a", "\"", ":", "1", "}">>, <<>>)

\* the replies to a plan request in the chat: a narrative with a fenced JSON
\* object, a narrative with a malformed block, the first of them with
\* flagged safety ratings, and the failures
PlanReplies ==
    { OkReply(PlanReplyText),
      OkReply(planReplyText(<<"S", "o", "m", "e", " ", "t", "e", "x", "t">>, FALSE, <<"{", "n", "o", "t", " ", "v", "a", "l", "i", "d", " ", "j", "s", "o", "n", "}">>, <<>>)) }
    \cup { RatedReply(PlanReplyText, ratings) : ratings \in FlaggedRatings }
    \cup FailedReplies

\* texts without any brace: a sentence, a sentence with white space around
\* it, and white space alone
NoBlockTexts == {<<"n", "o", " ", "j", "s", "o", "n", " ", "a", "t", " ", "a", "l", "l">>, <<" ", " ", "P", "l", "a", "n", " ", "o", "n", "l", "y", ".", "\n">>, <<" ", "\n">>}

\* every combination of the pieces, the texts without a block, and the failures
ExtractReplies ==
    { OkReply(planReplyText(narrative, fenced, block, trailer)) :
          narrative \in Narratives, fenced \in BOOLEAN,
          block \in JsonBlocks, trailer \in Trailers }
    \cup { OkReply(text) : text \in NoBlockTexts }
    \cup FailedReplies

\* what the detailed-plan endpoint does: a network failure rejects fetch;
\* otherwise there is a response whose body parses as JSON or does not
FetchOutcomes ==
    { [network |-> "ok",     status |-> 200, bodyIsJson |-> TRUE],
      [network |-> "ok",     status |-> 500, bodyIsJson |-> TRUE],
      [network |-> "ok",     status |-> 500, bodyIsJson |-> FALSE],
      [network |-> "failed", status |-> 0,   bodyIsJson |-> FALSE] }

\* -------------------------------------------------------------- the state

VARIABLES
    messages,               \* useState<Message[]>
    isAIThinking,           \* useState(false)
    chatPhase,              \* useState<ChatPhase>
    currentProductIdea,     \* useState<string | null>
    questionsForUser,       \* useState<string[]>
    answersFromUser,        \* useState<Record<string, boolean>>
    currentQuestionIndex,   \* useState<number>
    totalQuestionsCount,    \* useState<number>
    currentPlan,            \* useState<{text, json} | null>
    calls,                  \* promises awaited by a handler, not yet settled
    now,                    \* Date.now()
    sends,                  \* texts submitted so far (bounded by MaxSends)
    clears                  \* resets so far (bounded by MaxClears); the session epoch

vars == <<messages, isAIThinking, chatPhase, currentProductIdea, questionsForUser,
          answersFromUser, currentQuestionIndex, totalQuestionsCount, currentPlan,
          calls, now, sends, clears>>

session == <<chatPhase, currentProductIdea, questionsForUser, answersFromUser,
             currentQuestionIndex, totalQuestionsCount, currentPlan>>

\* string | null and {text, json} | null, kept in one shape each
NullIdea == [isNull |-> TRUE, value |-> <<>>]
Idea(s) == [isNull |-> FALSE, value |-> s]
NullPlan == [isNull |-> TRUE, text |-> <<>>, json |-> NoJson]
\* setCurrentPlan called with null whatever the plan is
Plan_StoresNull(t, j) == NullPlan
Plan(t, j) == [isNull |-> FALSE, text |-> t, json |-> j]

NoAnswers == <<>>

\* the declared union type
ChatPhase ==
    {"awaiting_idea", "generating_questions", "awaiting_question_answer",
     "generating_plan", "awaiting_plan_feedback", "revising_plan",
     "plan_finalized", "error_state"}

\* a Message; id is the prefix and the Date.now() it was built with
Msg(prefix, t, role, content) ==
    [id |-> <<prefix, t>>, content |-> content, role |-> role,
     isLoading |-> FALSE, isQuestion |-> FALSE, answered |-> "none",
     planText |-> <<>>, planJson |-> NoJson]

initialMessages ==
    << Msg("welcome-1", 0, "assistant",
           <<"Welcome to Zelash! I'm your Product Strategist. To begin, please describe the product idea you'd like to develop.">>) >>

\* the filter that drops the user's messages as well
FilterOut_AlsoUser(msgs, id) == SelectSeq(msgs, LAMBDA m : m.id # id /\ m.role # "user")

\* prev.filter(m => m.id !== id)
FilterOut(msgs, id) == SelectSeq(msgs, LAMBDA m : m.id # id)

\* a pending promise with the locals its continuation closes over
Call(kind, msgId, idea, answers, planJson, feedback) ==
    [kind |-> kind, msgId |-> msgId, idea |-> idea, answers |-> answers,
     planJson |-> planJson, feedback |-> feedback, epoch |-> clears]

Init ==
    /\ messages = initialMessages
    /\ isAIThinking = FALSE
    /\ chatPhase = "awaiting_idea"
    /\ currentProductIdea = NullIdea
    /\ questionsForUser = <<>>
    /\ answersFromUser = NoAnswers
    /\ currentQuestionIndex = 0
    /\ totalQuestionsCount = 0
    /\ currentPlan = NullPlan
    /\ calls = {}
    /\ now = 1
    /\ sends = 0
    /\ clears = 0


\* ------------------------------------------------------- handleSendMessage

\* ideaLength < 15
VagueIdeaLength == 15

Greetings == {<<"h", "i">>, <<"h", "e", "l", "l", "o">>, <<"h", "e", "y">>, <<"y", "o">>}

complexityKeywords ==
    << <<"m", "l", " ", "m", "o", "d", "e", "l">>,
       <<"w", "e", "b", "3">>,
       <<"b", "l", "o", "c", "k", "c", "h", "a", "i", "n">>,
       <<"a", "r", "t", "i", "f", "i", "c", "i", "a", "l", " ", "i", "n", "t", "e", "l", "l", "i", "g", "e", "n", "c", "e">>,
       <<"d", "e", "e", "p", " ", "l", "e", "a", "r", "n", "i", "n", "g">>,
       <<"n", "e", "u", "r", "a", "l", " ", "n", "e", "t", "w", "o", "r", "k">>,
       <<"c", "r", "y", "p", "t", "o">>,
       <<"s", "m", "a", "r", "t", " ", "c", "o", "n", "t", "r", "a", "c", "t">> >>

largeScaleKeywords ==
    << <<"g", "l", "o", "b", "a", "l", " ", "s", "c", "a", "l", "e">>,
       <<"b", "i", "l", "l", "i", "o", "n", "s", " ", "o", "f", " ", "u", "s", "e", "r", "s">>,
       <<"w", "o", "r", "l", "d", "w", "i", "d", "e", " ", "p", "l", "a", "t", "f", "o", "r", "m">>,
       <<"e", "n", "t", "e", "r", "p", "r", "i", "s", "e", " ", "g", "r", "a", "d", "e", " ", "f", "o", "r", " ", "f", "o", "r", "t", "u", "n", "e", " ", "5", "0", "0">> >>

\* the vague-idea test with the length of the text before trim()
isVague_Untrimmed(messageContent) ==
    LET lowerCaseIdea == ToLowerCase(messageContent)
        ideaLength == Len(messageContent)
    IN  ideaLength < VagueIdeaLength \/ lowerCaseIdea \in Greetings

\* the vague-idea test
isVague(messageContent) ==
    LET lowerCaseIdea == ToLowerCase(messageContent)
        ideaLength == Len(Trim(messageContent))
    IN  ideaLength < VagueIdeaLength \/ lowerCaseIdea \in Greetings

\* the two keyword loops run on the text before toLowerCase()
isTooComplex_CaseSensitive(messageContent) ==
    LET hit(keywords) == \E k \in 1..Len(keywords) : Includes(messageContent, keywords[k])
    IN  IF hit(complexityKeywords) THEN TRUE ELSE hit(largeScaleKeywords)

\* the two keyword loops
isTooComplex(messageContent) ==
    LET lowerCaseIdea == ToLowerCase(messageContent)
        hit(keywords) == \E k \in 1..Len(keywords) : Includes(lowerCaseIdea, keywords[k])
    IN  IF hit(complexityKeywords) THEN TRUE ELSE hit(largeScaleKeywords)

\* the accept test of the awaiting_plan_feedback branch
isAcceptance(messageContent) ==
    LET lowerCaseContent == ToLowerCase(messageContent)
    IN  \/ Includes(lowerCaseContent, <<"a", "c", "c", "e", "p", "t">>)
        \/ Includes(lowerCaseContent, <<"l", "o", "o", "k", "s", " ", "g", "o", "o", "d">>)
        \/ Includes(lowerCaseContent, <<"f", "i", "n", "a", "l", "i", "z", "e">>)

\* the awaiting_idea branch without the two validations
sendInAwaitingIdea_NoValidation(messageContent, withUser) ==
    LET thinkingMsgForQuestions ==
            [Msg("thinking-questions-", now, "assistant",
                 <<"Great idea! Thinking of some clarifying questions for you...">>)
             EXCEPT !.isLoading = TRUE]
    IN  /\ currentProductIdea' = Idea(messageContent)
        /\ chatPhase' = "generating_questions"
        /\ isAIThinking' = TRUE
        /\ answersFromUser' = NoAnswers
        /\ currentQuestionIndex' = 0
        /\ totalQuestionsCount' = 0
        /\ currentPlan' = NullPlan
        /\ messages' = Append(withUser, thinkingMsgForQuestions)
        /\ calls' = calls \cup {Call("getClarifyingQuestions", thinkingMsgForQuestions.id,
                                     Idea(messageContent), NoAnswers, NoJson, <<>>)}
        /\ UNCHANGED questionsForUser

\* chatPhase === 'awaiting_idea'
sendInAwaitingIdea(messageContent, withUser) ==
    IF isVague(messageContent) THEN
        /\ messages' = Append(withUser, Msg("elaborate-", now, "assistant",
               <<"That's a start! To help me understand, could you please provide a more detailed description of your product idea?">>))
        /\ UNCHANGED <<isAIThinking, session, calls>>
    ELSE IF isTooComplex(messageContent) THEN
        /\ messages' = Append(withUser, Msg("complex-idea-", now, "assistant",
               <<"That sounds like a very ambitious and potentially complex project!">>))
        /\ UNCHANGED <<isAIThinking, session, calls>>
    ELSE
        LET thinkingMsgForQuestions ==
                [Msg("thinking-questions-", now, "assistant",
                     <<"Great idea! Thinking of some clarifying questions for you...">>)
                 EXCEPT !.isLoading = TRUE]
        IN  /\ currentProductIdea' = Idea(messageContent)
            /\ chatPhase' = "generating_questions"
            /\ isAIThinking' = TRUE
            /\ answersFromUser' = NoAnswers
            /\ currentQuestionIndex' = 0
            /\ totalQuestionsCount' = 0
            /\ currentPlan' = NullPlan
            /\ messages' = Append(withUser, thinkingMsgForQuestions)
            /\ calls' = calls \cup {Call("getClarifyingQuestions", thinkingMsgForQuestions.id,
                                         Idea(messageContent), NoAnswers, NoJson, <<>>)}
            /\ UNCHANGED questionsForUser

\* chatPhase === 'awaiting_question_answer'
sendInAwaitingQuestionAnswer(withUser) ==
    /\ messages' = Append(withUser, Msg("clarification-", now, "assistant",
           <<"Please use the 'Yes' or 'No' buttons to answer the current question.">>))
    /\ UNCHANGED <<isAIThinking, session, calls>>

\* chatPhase === 'awaiting_plan_feedback'
sendInAwaitingPlanFeedback(messageContent, withUser) ==
    IF isAcceptance(messageContent) THEN
        IF currentPlan.isNull THEN
            /\ messages' = Append(withUser, Msg("error-no-plan-to-finalize-", now, "assistant",
                   <<"There isn't a current plan to finalize. Let's generate one first!">>))
            /\ UNCHANGED <<isAIThinking, session, calls>>
        ELSE
            LET loadingMessage ==
                    [Msg("loading-detailed-plan-", now, "assistant",
                         <<"Generating a detailed technical plan, please wait...">>)
                     EXCEPT !.isLoading = TRUE]
            IN  /\ chatPhase' = "fetching_detailed_plan"
                /\ messages' = Append(withUser, loadingMessage)
                /\ calls' = calls \cup {Call("fetchDetailedPlan", loadingMessage.id,
                                             NullIdea, NoAnswers, currentPlan.json, <<>>)}
                /\ UNCHANGED <<isAIThinking, currentProductIdea, questionsForUser,
                               answersFromUser, currentQuestionIndex,
                               totalQuestionsCount, currentPlan>>
    ELSE
        \* the remaining else-if has an empty body
        /\ messages' = withUser
        /\ UNCHANGED <<isAIThinking, session, calls>>

\* chatPhase === 'revising_plan'
sendInRevisingPlan(messageContent, withUser) ==
    LET thinkingMsgForRevision ==
            [Msg("thinking-revision-", now, "assistant",
                 <<"Got your feedback! Revising the plan...">>)
             EXCEPT !.isLoading = TRUE]
    IN  IF currentPlan.isNull THEN
            \* currentPlan.json throws inside the try: catch and finally run at once
            /\ messages' = Append(withUser, Msg("error-revision-", now, "assistant",
                   <<"Error revising plan: ">>))
            /\ chatPhase' = "awaiting_plan_feedback"
            /\ isAIThinking' = FALSE
            /\ UNCHANGED <<currentProductIdea, questionsForUser, answersFromUser,
                           currentQuestionIndex, totalQuestionsCount, currentPlan, calls>>
        ELSE
            /\ messages' = Append(withUser, thinkingMsgForRevision)
            /\ calls' = calls \cup {Call("reviseProductPlan", thinkingMsgForRevision.id,
                                         currentProductIdea, answersFromUser,
                                         currentPlan.json, messageContent)}
            /\ UNCHANGED <<isAIThinking, session>>

\* chatPhase === 'plan_finalized'
sendInPlanFinalized(withUser) ==
    /\ messages' = Append(withUser, Msg("plan-finalized-prompt-", now, "assistant",
           <<"Plan already finalized. Please describe a new product idea to begin.">>))
    /\ UNCHANGED <<isAIThinking, session, calls>>

\* The input box and its send button are disabled while isAIThinking, and
\* ChatInput.handleSend drops blank text.
handleSendMessage(messageContent) ==
    /\ ~isAIThinking
    /\ sends < MaxSends
    /\ Trim(messageContent) # <<>>
    /\ LET userMessage == Msg("", now, "user", messageContent)
           withUser == Append(messages, userMessage)
       IN  CASE chatPhase = "awaiting_idea" -> sendInAwaitingIdea(messageContent, withUser)
             [] chatPhase = "awaiting_question_answer" -> sendInAwaitingQuestionAnswer(withUser)
             [] chatPhase = "awaiting_plan_feedback" -> sendInAwaitingPlanFeedback(messageContent, withUser)
             [] chatPhase = "revising_plan" -> sendInRevisingPlan(messageContent, withUser)
             [] chatPhase = "plan_finalized" -> sendInPlanFinalized(withUser)
             [] OTHER -> /\ messages' = withUser
                         /\ UNCHANGED <<isAIThinking, session, calls>>
    /\ now' = now + 1
    /\ sends' = sends + 1
    /\ UNCHANGED clears


\* ------------------------------------------------------ handleAnswerSelect

\* questionsForUser[nextIdx] inside the template literal
questionAt(nextIdx) ==
    IF nextIdx + 1 <= Len(questionsForUser) THEN questionsForUser[nextIdx + 1]
    ELSE <<"u", "n", "d", "e", "f", "i", "n", "e", "d">>

\* the truthiness of currentProductIdea
hasIdea == ~currentProductIdea.isNull /\ currentProductIdea.value # <<>>

\* MessageBubble shows the Yes/No buttons of an assistant message that is a
\* question and has no answer yet; a click passes message.id, message.content
handleAnswerSelect(i, answer) ==
    /\ i \in 1..Len(messages)
    /\ messages[i].role = "assistant"
    /\ messages[i].isQuestion
    /\ messages[i].answered = "none"
    /\ LET questionMessageId == messages[i].id
           key == actualQuestionText(messages[i].content)
           marked == [k \in 1..Len(messages) |->
                        IF messages[k].id = questionMessageId
                        THEN [messages[k] EXCEPT !.answered = IF answer THEN "yes" ELSE "no",
                                                 !.isQuestion = FALSE]
                        ELSE messages[k]]
           newAnswers == (key :> answer) @@ answersFromUser
           nextIdx == currentQuestionIndex + 1
       IN  /\ answersFromUser' = newAnswers
           /\ currentQuestionIndex' = nextIdx
           /\ IF nextIdx < totalQuestionsCount /\ hasIdea THEN
                  LET nextQuestionMessage ==
                          [Msg("question-", now, "assistant",
                               questionContent(nextIdx + 1, totalQuestionsCount, questionAt(nextIdx)))
                           EXCEPT !.id = <<"question-", now, nextIdx>>, !.isQuestion = TRUE]
                  IN  /\ messages' = Append(marked, nextQuestionMessage)
                      /\ UNCHANGED <<isAIThinking, chatPhase, currentPlan, calls>>
              ELSE IF nextIdx >= totalQuestionsCount /\ hasIdea THEN
                  LET thinkingMsgForPlan ==
                          [Msg("thinking-plan-", now, "assistant",
                               <<"All questions answered! Generating your initial product plan...">>)
                           EXCEPT !.isLoading = TRUE]
                  IN  /\ chatPhase' = "generating_plan"
                      /\ isAIThinking' = TRUE
                      /\ messages' = Append(marked, thinkingMsgForPlan)
                      /\ calls' = calls \cup {Call("generateProductPlan", thinkingMsgForPlan.id,
                                                   currentProductIdea, newAnswers, NoJson, <<>>)}
                      /\ UNCHANGED currentPlan
              ELSE
                  /\ messages' = marked
                  /\ UNCHANGED <<isAIThinking, chatPhase, currentPlan, calls>>
    /\ now' = now + 1
    /\ UNCHANGED <<currentProductIdea, questionsForUser, totalQuestionsCount, sends, clears>>

\* ------------------------------------------- continuations after the await

\* what the model endpoint does with the question request: fetch rejects, or
\* there is a response with response.ok and a body: no candidate text, a text
\* that is not JSON, a JSON text without a questions array, or a JSON text
\* with one; safetyRatings are the ratings of the first candidate, which
\* getClarifyingQuestions never reads
QuestionReplies ==
    {[network |-> "failed", ok |-> FALSE, body |-> "noContent", questions |-> <<>>, safetyRatings |-> <<>>]}
    \cup {[network |-> "ok", ok |-> FALSE, body |-> "questions", questions |-> <<FirstQuestionText>>, safetyRatings |-> CleanRatings]}
    \cup {[network |-> "ok", ok |-> TRUE, body |-> b, questions |-> <<>>, safetyRatings |-> CleanRatings] :
              b \in {"noContent", "notJson", "noArray"}}
    \cup {[network |-> "ok", ok |-> TRUE, body |-> "questions", questions |-> q, safetyRatings |-> ratings] :
              q \in QuestionLists, ratings \in {CleanRatings} \cup FlaggedRatings}

\* a rejected promise of the service
Rejected == [ok |-> FALSE, questions |-> <<>>]

\* getClarifyingQuestions without the test of response.ok
getClarifyingQuestions_IgnoresStatus(reply) ==
    IF reply.network = "failed" THEN Rejected
    ELSE IF reply.body = "questions" THEN [ok |-> TRUE, questions |-> reply.questions]
    ELSE Rejected

\* getClarifyingQuestions: the promise resolves with parsedJson.questions or
\* rejects
getClarifyingQuestions(reply) ==
    IF reply.network = "failed" THEN Rejected
    ELSE IF ~reply.ok THEN Rejected
    ELSE IF reply.body = "questions" THEN [ok |-> TRUE, questions |-> reply.questions]
    ELSE Rejected

\* what getClarifyingQuestions settles with
QuestionsOutcomes == {getClarifyingQuestions(reply) : reply \in QuestionReplies}

\* what generateProductPlan and reviseProductPlan settle with
PlanOutcomes == {generateProductPlan(reply) : reply \in PlanReplies}

\* handleSendMessage after await getClarifyingQuestions: try, catch, finally
questionsSettled(c, o) ==
    LET kept == FilterOut(messages, c.msgId)
    IN  /\ IF o.ok THEN
               IF Len(o.questions) > 0 THEN
                   LET firstQuestionMessage ==
                           [Msg("question-", now, "assistant",
                                questionContent(1, Len(o.questions), o.questions[1]))
                            EXCEPT !.id = <<"question-", now, 0>>, !.isQuestion = TRUE]
                   IN  /\ questionsForUser' = o.questions
                       /\ totalQuestionsCount' = Len(o.questions)
                       /\ messages' = Append(kept, firstQuestionMessage)
                       /\ chatPhase' = "awaiting_question_answer"
               ELSE
                   /\ messages' = Append(kept, Msg("no-questions-", now, "assistant",
                          <<"I couldn't generate specific questions for that idea.">>))
                   /\ chatPhase' = "awaiting_idea"
                   /\ UNCHANGED <<questionsForUser, totalQuestionsCount>>
           ELSE
               /\ messages' = Append(kept, Msg("error-questions-", now, "assistant",
                      <<"Error generating questions: ">>))
               /\ chatPhase' = "error_state"
               /\ UNCHANGED <<questionsForUser, totalQuestionsCount>>
        /\ isAIThinking' = FALSE
        /\ UNCHANGED <<currentProductIdea, answersFromUser, currentQuestionIndex, currentPlan>>

\* the plan messages with the JSON message put first
planMessages_JsonFirst(o) ==
    << [Msg("plan-json-", now, "assistant",
            <<"Here is the structured JSON version of the plan:">>)
        EXCEPT !.planJson = o.planJson],
       [Msg("plan-text-", now, "assistant", o.planText)
        EXCEPT !.planText = o.planText],
       Msg("feedback-prompt-", now, "assistant",
           <<"What do you think of this initial plan?">>) >>

\* planTextMessage, planJsonMessage, feedbackPromptMessage
planMessages(o) ==
    << [Msg("plan-text-", now, "assistant", o.planText)
        EXCEPT !.planText = o.planText],
       [Msg("plan-json-", now, "assistant",
            <<"Here is the structured JSON version of the plan:">>)
        EXCEPT !.planJson = o.planJson],
       Msg("feedback-prompt-", now, "assistant",
           <<"What do you think of this initial plan?">>) >>

\* handleAnswerSelect after await generateProductPlan: try, catch, finally
planSettled(c, o) ==
    LET kept == FilterOut(messages, c.msgId)
    IN  /\ IF o.ok THEN
               /\ currentPlan' = Plan(o.planText, o.planJson)
               /\ messages' = kept \o planMessages(o)
               /\ chatPhase' = "awaiting_plan_feedback"
           ELSE
               /\ messages' = Append(kept, Msg("error-plan-", now, "assistant",
                      <<"Error generating plan: ">>))
               /\ chatPhase' = "error_state"
               /\ UNCHANGED currentPlan
        /\ isAIThinking' = FALSE
        /\ UNCHANGED <<currentProductIdea, questionsForUser, answersFromUser,
                       currentQuestionIndex, totalQuestionsCount>>

\* handleSendMessage after await reviseProductPlan: try, catch, finally
revisionSettled(c, o) ==
    LET kept == FilterOut(messages, c.msgId)
    IN  /\ IF o.ok THEN
               /\ currentPlan' = Plan(o.planText, o.planJson)
               /\ messages' = kept \o
                      << [Msg("revised-plan-text-", now, "assistant", o.planText)
                          EXCEPT !.planText = o.planText],
                         [Msg("revised-plan-json-", now, "assistant",
                              <<"Updated structured JSON version of the plan:">>)
                          EXCEPT !.planJson = o.planJson],
                         Msg("feedback-prompt-revised-", now, "assistant",
                             <<"What do you think of the revised plan?">>) >>
           ELSE
               /\ messages' = Append(kept, Msg("error-revision-", now, "assistant",
                      <<"Error revising plan: ">>))
               /\ UNCHANGED currentPlan
        /\ chatPhase' = "awaiting_plan_feedback"
        /\ isAIThinking' = FALSE
        /\ UNCHANGED <<currentProductIdea, questionsForUser, answersFromUser,
                       currentQuestionIndex, totalQuestionsCount>>

\* finalizeSession with setCurrentPlan(null) forgotten
finalizeSession_KeepsPlan ==
    /\ currentProductIdea' = NullIdea
    /\ answersFromUser' = NoAnswers
    /\ currentQuestionIndex' = 0
    /\ questionsForUser' = <<>>
    /\ chatPhase' = "awaiting_idea"
    /\ UNCHANGED currentPlan

\* the setters of the finally block that follows the detailed-plan fetch
finalizeSession ==
    /\ currentProductIdea' = NullIdea
    /\ answersFromUser' = NoAnswers
    /\ currentQuestionIndex' = 0
    /\ questionsForUser' = <<>>
    /\ currentPlan' = NullPlan
    /\ chatPhase' = "awaiting_idea"

\* handleSendMessage after await fetch / await response.json(): fetch rejects
\* on a network failure only, response.json() throws on a body that is not
\* JSON; the status is never read
detailedPlanSettled(c, o) ==
    LET finalizedMessage ==
            Msg("plan-finalized-", now, "assistant",
                <<"Detailed plan generated and saved. You can start a new idea now.">>)
    IN  /\ IF o.network = "ok" /\ o.bodyIsJson THEN
               messages' = FilterOut(messages, c.msgId) \o
                   << Msg("detailed-plan-", now, "assistant",
                          IF o.status = 200 THEN <<"{detailed plan}">> ELSE <<"{error body}">>),
                      finalizedMessage >>
           ELSE
               messages' = messages \o
                   << Msg("error-detailed-plan-", now, "assistant",
                          <<"Failed to generate detailed plan: ">>),
                      finalizedMessage >>
        /\ finalizeSession
        /\ UNCHANGED <<isAIThinking, totalQuestionsCount>>

\* a pending promise settles and the rest of its handler runs; planOutcomes
\* is what a plan request can settle with
CallSettlesFrom(c, planOutcomes) ==
    /\ c \in calls
    /\ CASE c.kind = "getClarifyingQuestions" -> \E o \in QuestionsOutcomes : questionsSettled(c, o)
         [] c.kind = "generateProductPlan" -> \E o \in planOutcomes : planSettled(c, o)
         [] c.kind = "reviseProductPlan" -> \E o \in planOutcomes : revisionSettled(c, o)
         [] c.kind = "fetchDetailedPlan" -> \E o \in FetchOutcomes : detailedPlanSettled(c, o)
    /\ calls' = calls \ {c}
    /\ now' = now + 1
    /\ UNCHANGED <<sends, clears>>

CallSettles(c) == CallSettlesFrom(c, PlanOutcomes)

\* ------------------------------------------------------------------ resets

\* resetSession with setTotalQuestionsCount(0) forgotten
resetSession_KeepsTotal ==
    /\ currentProductIdea' = NullIdea
    /\ questionsForUser' = <<>>
    /\ answersFromUser' = NoAnswers
    /\ currentQuestionIndex' = 0
    /\ UNCHANGED totalQuestionsCount
    /\ currentPlan' = NullPlan
    /\ chatPhase' = "awaiting_idea"

\* the setters of handleClearChat
resetSession ==
    /\ currentProductIdea' = NullIdea
    /\ questionsForUser' = <<>>
    /\ answersFromUser' = NoAnswers
    /\ currentQuestionIndex' = 0
    /\ totalQuestionsCount' = 0
    /\ currentPlan' = NullPlan
    /\ chatPhase' = "awaiting_idea"

\* the "Start fresh" button
handleClearChat ==
    /\ clears < MaxClears
    /\ messages' = initialMessages
    /\ resetSession
    /\ clears' = clears + 1
    /\ now' = now + 1
    /\ UNCHANGED <<isAIThinking, calls, sends>>

\* PersonaSelector onSelect: handleClearChat(), then setMessages([switch message])
onSelectPersona ==
    /\ clears < MaxClears
    /\ messages' = << Msg("persona-switch-", now, "assistant",
                          <<"Switched to Product Strategist. How can I assist you?">>) >>
    /\ resetSession
    /\ clears' = clears + 1
    /\ now' = now + 1
    /\ UNCHANGED <<isAIThinking, calls, sends>>

\* ------------------------------------------------------- the specification

Next ==
    \/ \E messageContent \in UserTexts : handleSendMessage(messageContent)
    \/ \E i \in 1..Len(messages), answer \in BOOLEAN : handleAnswerSelect(i, answer)
    \/ \E c \in calls : CallSettles(c)
    \/ handleClearChat
    \/ onSelectPersona

Spec == Init /\ [][Next]_vars

\* ------------------------------------- the specification of plan extraction
\* The chat at the moment the plan request is pending (one idea, one question,
\* one answer), with every reply of ExtractReplies as the reply to it.

ExtractOutcomes == {generateProductPlan(reply) : reply \in ExtractReplies}

\* the state after: idea sent, one question returned, the answer selected
InitExtract ==
    \E answer \in BOOLEAN :
        LET firstQuestion == questionContent(1, 1, FirstQuestionText)
        IN  /\ messages =
                   << initialMessages[1],
                      Msg("", 1, "user", IdeaText),
                      [Msg("question-", 2, "assistant", firstQuestion)
                       EXCEPT !.id = <<"question-", 2, 0>>,
                              !.answered = IF answer THEN "yes" ELSE "no"],
                      [Msg("thinking-plan-", 3, "assistant",
                           <<"All questions answered! Generating your initial product plan...">>)
                       EXCEPT !.isLoading = TRUE] >>
            /\ isAIThinking = TRUE
            /\ chatPhase = "generating_plan"
            /\ currentProductIdea = Idea(IdeaText)
            /\ questionsForUser = <<FirstQuestionText>>
            /\ answersFromUser = (actualQuestionText(firstQuestion) :> answer)
            /\ currentQuestionIndex = 1
            /\ totalQuestionsCount = 1
            /\ currentPlan = NullPlan
            /\ calls = {[kind |-> "generateProductPlan", msgId |-> <<"thinking-plan-", 3>>,
                         idea |-> Idea(IdeaText),
                         answers |-> (actualQuestionText(firstQuestion) :> answer),
                         planJson |-> NoJson, feedback |-> <<>>, epoch |-> 0]}
            /\ now = 4
            /\ sends = 1
            /\ clears = 0

NextExtract ==
    \/ \E c \in calls : CallSettlesFrom(c, ExtractOutcomes)
    \/ \E messageContent \in UserTexts : handleSendMessage(messageContent)

SpecExtract == InitExtract /\ [][NextExtract]_vars

\* ------------------------------------- the specification of idea validation
\* The chat from its first state, with the texts of IdeaTexts typed in, up to
\* the request that follows an accepted idea.

NextValidate == \E messageContent \in IdeaTexts : handleSendMessage(messageContent)

SpecValidate == Init /\ [][NextValidate]_vars


\* ------------------------------------------------------------- the claims

\* the step in which the await of call c ends
Settles(c) == c \in calls /\ CallSettles(c)

\* a reply to call c arrives after the session that issued it was reset
IsStale(c) == c.epoch < clears

\* the last message of the list
LastMessage == messages[Len(messages)]

\* C1: at most one model/network call is outstanding at any time, and while
\* one is outstanding the thinking flag is set.
C1_OneCallUnderThinkingFlag ==
    /\ Cardinality(calls) <= 1
    /\ calls # {} => isAIThinking

\* C2: a reply that settles after the session was reset is discarded: it
\* changes neither the phase, the questions, the answers, the plan nor the
\* messages of the reset session.
C2_StaleReplyDiscarded ==
    [][\A c \in calls :
          (IsStale(c) /\ Settles(c)) =>
              UNCHANGED <<chatPhase, questionsForUser, answersFromUser,
                          currentPlan, messages>>]_vars

\* C3: in awaiting_plan_feedback a text without accept keyword issues a
\* revision call carrying the current plan json and the text and moves to
\* revising_plan; a successful revision replaces the plan and returns to
\* awaiting_plan_feedback.
C3_FeedbackStartsRevision ==
    [][/\ \A t \in UserTexts :
             (chatPhase = "awaiting_plan_feedback" /\ ~isAcceptance(t)
                 /\ handleSendMessage(t)) =>
                 /\ chatPhase' = "revising_plan"
                 /\ \E c \in calls' \ calls :
                        /\ c.kind = "reviseProductPlan"
                        /\ c.planJson = currentPlan.json
                        /\ c.feedback = t
       /\ \A c \in calls, o \in PlanOutcomes :
             (c.kind = "reviseProductPlan" /\ o.ok /\ revisionSettled(c, o)) =>
                 /\ currentPlan' = Plan(o.planText, o.planJson)
                 /\ chatPhase' = "awaiting_plan_feedback"]_vars

\* C4: in awaiting_plan_feedback a text with an accept keyword starts exactly
\* one detailed-plan call, carrying the json of the stored plan; when that
\* call settles, idea, answers, questions and plan are reset and the phase is
\* awaiting_idea.
C4_AcceptFinalizes ==
    [][/\ \A t \in UserTexts :
             (chatPhase = "awaiting_plan_feedback" /\ isAcceptance(t)
                 /\ handleSendMessage(t)) =>
                 /\ ~currentPlan.isNull
                 /\ \E c \in calls' :
                        /\ c \notin calls
                        /\ calls' = calls \cup {c}
                        /\ c.kind = "fetchDetailedPlan"
                        /\ c.planJson = currentPlan.json
       /\ \A c \in calls :
             (c.kind = "fetchDetailedPlan" /\ Settles(c)) =>
                 /\ currentProductIdea' = NullIdea
                 /\ answersFromUser' = NoAnswers
                 /\ questionsForUser' = <<>>
                 /\ currentPlan' = NullPlan
                 /\ chatPhase' = "awaiting_idea"]_vars

\* C4 witness: a detailed-plan call has settled and the session is finalized
C4_Witness ==
    /\ LastMessage.id[1] = "plan-finalized-"
    /\ chatPhase = "awaiting_idea"
    /\ currentPlan = NullPlan

\* C5: selecting the answer to the last question issues exactly one
\* plan-synthesis call with the stored idea and the answer map that includes
\* the answer just given, and the phase becomes generating_plan.
C5_LastAnswerStartsPlan ==
    [][\A i \in 1..Len(messages), a \in BOOLEAN :
          (chatPhase = "awaiting_question_answer"
              /\ currentQuestionIndex + 1 >= totalQuestionsCount
              /\ handleAnswerSelect(i, a)) =>
              /\ chatPhase' = "generating_plan"
              /\ \E c \in calls' :
                     /\ c \notin calls
                     /\ calls' = calls \cup {c}
                     /\ c.kind = "generateProductPlan"
                     /\ c.idea = currentProductIdea
                     /\ ~c.idea.isNull
                     /\ c.answers = answersFromUser'
                     /\ \E k \in DOMAIN c.answers : c.answers[k] = a]_vars

\* C6: an answer selection in awaiting_question_answer that does not exhaust
\* the list increments questionIndex by 1, appends exactly one message, the
\* question at the new index with its progress label, and keeps the phase.
C6_NextQuestionInOrder ==
    [][\A i \in 1..Len(messages), a \in BOOLEAN :
          (chatPhase = "awaiting_question_answer"
              /\ currentQuestionIndex + 1 < totalQuestionsCount
              /\ handleAnswerSelect(i, a)) =>
              /\ currentQuestionIndex' = currentQuestionIndex + 1
              /\ chatPhase' = "awaiting_question_answer"
              /\ Len(messages') = Len(messages) + 1
              /\ messages'[Len(messages')].isQuestion
              /\ currentQuestionIndex' + 1 <= Len(questionsForUser)
              /\ messages'[Len(messages')].content =
                     questionContent(currentQuestionIndex' + 1, totalQuestionsCount,
                                     questionsForUser[currentQuestionIndex' + 1])]_vars

\* the canonical texts of the stored questions
CanonicalQuestions == {questionsForUser[k] : k \in 1..Len(questionsForUser)}

\* C7: after N questions and N selected answers the list is exhausted and the
\* answer map has exactly N entries keyed by the canonical question texts
\* (two different texts here), not by the labelled message content.
C7_AnswersKeyedByCanonicalText ==
    (/\ chatPhase = "generating_plan"
     /\ totalQuestionsCount = Len(questionsForUser)
     /\ Cardinality(CanonicalQuestions) = totalQuestionsCount
     /\ totalQuestionsCount >= 1)
    => /\ currentQuestionIndex >= totalQuestionsCount
       /\ DOMAIN answersFromUser = CanonicalQuestions

\* the key under which handleAnswerSelect files the answer to question k
AnswerKey(k) ==
    actualQuestionText(questionContent(k, totalQuestionsCount, questionsForUser[k]))

\* C8: once questionIndex has reached total (total >= 1), every question of
\* questions[0..total) has a recorded answer, one entry each.
C8_ExhaustedMeansAllAnswered ==
    (totalQuestionsCount >= 1 /\ currentQuestionIndex >= totalQuestionsCount)
    => /\ Len(questionsForUser) >= totalQuestionsCount
       /\ \A k \in 1..totalQuestionsCount : AnswerKey(k) \in DOMAIN answersFromUser
       /\ Cardinality(DOMAIN answersFromUser) = totalQuestionsCount

\* C9: an answer selection that arrives when the list is exhausted changes
\* neither questionIndex nor the answer map.
C9_AnswerAfterExhaustionIsNoOp ==
    [][\A i \in 1..Len(messages), a \in BOOLEAN :
          (currentQuestionIndex >= totalQuestionsCount /\ handleAnswerSelect(i, a)) =>
              UNCHANGED <<currentQuestionIndex, answersFromUser>>]_vars

\* C10: when the question-list call succeeds with N >= 1 questions, they are
\* stored in order with total = N, questionIndex = 0 and an empty answer map,
\* exactly one question message is emitted, the first question labelled
\* "(Question 1 of N)", and the phase becomes awaiting_question_answer.
C10_QuestionsStartSequencer ==
    [][\A c \in calls, o \in QuestionsOutcomes :
          (/\ c.kind = "getClarifyingQuestions"
           /\ o.ok /\ Len(o.questions) >= 1
           /\ questionsSettled(c, o)) =>
              /\ questionsForUser' = o.questions
              /\ totalQuestionsCount' = Len(o.questions)
              /\ currentQuestionIndex' = 0
              /\ answersFromUser' = NoAnswers
              /\ chatPhase' = "awaiting_question_answer"
              /\ messages'[Len(messages')].isQuestion
              /\ messages'[Len(messages')].content =
                     questionContent(1, Len(o.questions), o.questions[1])
              /\ Cardinality({k \in 1..Len(messages') : messages'[k].isQuestion})
                     <= Cardinality({k \in 1..Len(messages) : messages[k].isQuestion}) + 1]_vars

\* a reply with which the question-list call fails: transport error, non-2xx
\* status, no candidate text, text that is not JSON, JSON without the array
IsFailedQuestionReply(reply) ==
    \/ reply.network = "failed"
    \/ ~reply.ok
    \/ reply.body \in {"noContent", "notJson", "noArray"}

\* C11: when the question-list call fails (transport error, non-2xx status,
\* reply that is not JSON, reply without a questions array), the step that
\* handles the failure appends an error message, sets the phase error_state,
\* stores no question, and the call is over: nothing of it is left pending
\* that could advance the session.
C11_QuestionFailureIsErrorState ==
    [][\A c \in calls, reply \in QuestionReplies :
          (/\ c.kind = "getClarifyingQuestions"
           /\ IsFailedQuestionReply(reply)
           /\ Settles(c)
           /\ questionsSettled(c, getClarifyingQuestions(reply))) =>
              /\ chatPhase' = "error_state"
              /\ messages'[Len(messages')].id[1] = "error-questions-"
              /\ Len(messages') <= Len(messages) + 1
              /\ UNCHANGED <<questionsForUser, totalQuestionsCount>>
              /\ c \notin calls']_vars

\* C11 witness: the question-list call has failed
C11_Witness ==
    /\ chatPhase = "error_state"
    /\ LastMessage.id[1] = "error-questions-"
    /\ calls = {}

\* C12: when the plan-synthesis call succeeds, its {text, json} pair is the
\* stored plan after the step, the thinking message is replaced by three
\* messages in the order plan text, plan JSON, feedback prompt, and the phase
\* is awaiting_plan_feedback; when it fails, one error message is appended,
\* the phase is error_state and the stored plan is not written.
C12_PlanReplyStoresPlan ==
    [][\A c \in calls, o \in PlanOutcomes :
          (c.kind = "generateProductPlan" /\ Settles(c) /\ planSettled(c, o)) =>
              LET kept == FilterOut(messages, c.msgId)
                  n == Len(kept)
              IN  IF o.ok THEN
                      /\ currentPlan' = Plan(o.planText, o.planJson)
                      /\ chatPhase' = "awaiting_plan_feedback"
                      /\ Len(messages') = n + 3
                      /\ SubSeq(messages', 1, n) = kept
                      /\ messages'[n + 1].id[1] = "plan-text-"
                      /\ messages'[n + 1].content = o.planText
                      /\ messages'[n + 2].id[1] = "plan-json-"
                      /\ messages'[n + 2].planJson = o.planJson
                      /\ messages'[n + 3].id[1] = "feedback-prompt-"
                  ELSE
                      /\ chatPhase' = "error_state"
                      /\ Len(messages') = n + 1
                      /\ SubSeq(messages', 1, n) = kept
                      /\ messages'[n + 1].id[1] = "error-plan-"
                      /\ UNCHANGED currentPlan]_vars

\* C12 witness: a plan was stored and the feedback prompt is the last message
C12_Witness ==
    /\ chatPhase = "awaiting_plan_feedback"
    /\ ~currentPlan.isNull
    /\ Len(messages) >= 3
    /\ LastMessage.id[1] = "feedback-prompt-"
    /\ messages[Len(messages) - 2].planText = currentPlan.text

\* C13: when the detailed-plan endpoint answers with a non-2xx status or the
\* request fails at the network level, a failure message is appended just
\* before the finalization message, and idea, answers, questions and plan
\* are reset with the phase awaiting_idea.
C13_EndpointFailureSurfaced ==
    [][\A c \in calls, o \in FetchOutcomes :
          (/\ c.kind = "fetchDetailedPlan"
           /\ (o.network = "failed" \/ o.status \notin 200..299)
           /\ Settles(c)
           /\ detailedPlanSettled(c, o)) =>
              /\ Len(messages') >= 2
              /\ messages'[Len(messages') - 1].id[1] = "error-detailed-plan-"
              /\ messages'[Len(messages')].id[1] = "plan-finalized-"
              /\ currentProductIdea' = NullIdea
              /\ answersFromUser' = NoAnswers
              /\ questionsForUser' = <<>>
              /\ currentPlan' = NullPlan
              /\ chatPhase' = "awaiting_idea"]_vars

\* C14: in error_state a user text leaves the phase at error_state and starts
\* no call, and a step that takes the phase out of error_state is a clear or
\* a persona change.
C14_ErrorStateAbsorbing ==
    [][/\ \A t \in UserTexts :
             (chatPhase = "error_state" /\ handleSendMessage(t)) =>
                 /\ chatPhase' = "error_state"
                 /\ calls' = calls
       /\ (chatPhase = "error_state" /\ chatPhase' # "error_state") =>
              (handleClearChat \/ onSelectPersona)]_vars

\* C15: a clear or a persona change leaves the phase awaiting_idea, the idea
\* null, no questions, no answers, questionIndex 0, total 0, the plan null,
\* and a message list of one assistant message, the greeting.
C15_ResetClearsSession ==
    [][(handleClearChat \/ onSelectPersona) =>
          /\ chatPhase' = "awaiting_idea"
          /\ currentProductIdea' = NullIdea
          /\ questionsForUser' = <<>>
          /\ answersFromUser' = NoAnswers
          /\ currentQuestionIndex' = 0
          /\ totalQuestionsCount' = 0
          /\ currentPlan' = NullPlan
          /\ Len(messages') = 1
          /\ messages'[1].role = "assistant"
          /\ messages'[1].id[1] \in {"welcome-1", "persona-switch-"}]_vars

\* C15 witness: a session with questions asked has been reset
C15_Witness ==
    /\ clears = 1
    /\ sends >= 1
    /\ Len(messages) = 1
    /\ chatPhase = "awaiting_idea"
    /\ totalQuestionsCount = 0
    /\ \E c \in calls : c.kind = "generateProductPlan"

\* C16: a text submitted in awaiting_idea that is too vague or too complex
\* keeps the phase awaiting_idea, starts no call, leaves idea, questions,
\* answers, questionIndex and plan as they were, and appends the user
\* message and one guidance message, whatever was rejected before.
C16_RejectionHasNoEffect ==
    [][\A t \in UserTexts :
          (/\ chatPhase = "awaiting_idea"
           /\ (isVague(t) \/ isTooComplex(t))
           /\ handleSendMessage(t)) =>
              /\ chatPhase' = "awaiting_idea"
              /\ calls' = calls
              /\ UNCHANGED <<currentProductIdea, questionsForUser, answersFromUser,
                             currentQuestionIndex, currentPlan>>
              /\ Len(messages') = Len(messages) + 2
              /\ SubSeq(messages', 1, Len(messages)) = messages
              /\ messages'[Len(messages) + 1].role = "user"
              /\ messages'[Len(messages) + 1].content = t
              /\ messages'[Len(messages) + 2].role = "assistant"
              /\ messages'[Len(messages) + 2].id[1] \in {"elaborate-", "complex-idea-"}]_vars

\* C16 witness: two rejections in a row, the session still waiting for an idea
C16_Witness ==
    /\ Len(messages) = 5
    /\ messages[3].id[1] = "elaborate-"
    /\ messages[5].id[1] = "complex-idea-"
    /\ chatPhase = "awaiting_idea"
    /\ currentProductIdea = NullIdea
    /\ calls = {}

\* the step in which the plan request c settles with the model's reply
PlanReplyArrives(c, reply) ==
    /\ c \in calls
    /\ c.kind = "generateProductPlan"
    /\ planSettled(c, generateProductPlan(reply))
    /\ calls' = calls \ {c}

\* C17: for a reply made of a narrative followed by one valid JSON object,
\* inside a json fence or bare, the extracted plan has the trimmed narrative
\* as its text and the parsed object as its json.
C17_NarrativeThenJson ==
    [][\A c \in calls, narrative \in Narratives \ {<<>>},
          fenced \in BOOLEAN, block \in ValidBlocks :
          PlanReplyArrives(c, OkReply(planReplyText(narrative, fenced, block, <<>>))) =>
              /\ currentPlan'.text = Trim(narrative)
              /\ currentPlan'.json = JsonValue(block)]_vars

\* C18: for a reply that starts with a valid JSON object followed by a
\* narrative, the extracted plan has the trimmed text after the object as its
\* text and the parsed object as its json.
C18_JsonThenNarrative ==
    [][\A c \in calls, block \in ValidBlocks, trailer \in Trailers \ {<<>>} :
          PlanReplyArrives(c, OkReply(planReplyText(<<>>, FALSE, block, trailer))) =>
              /\ currentPlan'.text = Trim(trailer)
              /\ currentPlan'.json = JsonValue(block)]_vars

\* C19: for a reply made of a narrative followed by a brace-delimited block
\* that is not valid JSON, extraction does not fail: the plan has the
\* narrative as its text and as its json the error marker whose
\* originalJsonString is the malformed block, and the phase becomes
\* awaiting_plan_feedback with that plan stored.
C19_MalformedJsonKeepsNarrative ==
    [][\A c \in calls, narrative \in Narratives \ {<<>>}, block \in MalformedBlocks :
          PlanReplyArrives(c, OkReply(planReplyText(narrative, FALSE, block, <<>>))) =>
              /\ chatPhase' = "awaiting_plan_feedback"
              /\ currentPlan'.text = Trim(narrative)
              /\ currentPlan'.json = errorJson(block)]_vars

\* C20: for a reply with no narrative and no valid JSON, here a malformed
\* brace-delimited block alone, extraction fails: the error reaches the
\* caller, which stores no plan and reports the error.
C20_NothingUsableFailsHard ==
    [][\A c \in calls, block \in MalformedBlocks :
          PlanReplyArrives(c, OkReply(planReplyText(<<>>, FALSE, block, <<>>))) =>
              /\ ~generateProductPlan(OkReply(planReplyText(<<>>, FALSE, block, <<>>))).ok
              /\ chatPhase' = "error_state"
              /\ UNCHANGED currentPlan]_vars

\* C21 as stated: for a reply without any brace-delimited block the extracted
\* plan has the whole trimmed reply as its text and the empty object as its
\* json, never an error marker.
C21_NoBlockIsWholeText ==
    [][\A c \in calls, text \in NoBlockTexts :
          PlanReplyArrives(c, OkReply(text)) =>
              /\ currentPlan'.text = Trim(text)
              /\ currentPlan'.json = JsonValue(<<"{", "}">>)]_vars

\* C21 amended: for a reply without any brace-delimited block the extracted
\* plan has the empty object as its json, never an error marker, and as its
\* text the whole trimmed reply, or the default text "Generated plan details
\* below:" when the trimmed reply is empty.
C21_NoBlockIsWholeTextOrDefault ==
    [][\A c \in calls, text \in NoBlockTexts :
          PlanReplyArrives(c, OkReply(text)) =>
              /\ currentPlan'.text = IF Trim(text) # <<>> THEN Trim(text)
                                     ELSE <<"Generated plan details below:">>
              /\ currentPlan'.json = JsonValue(<<"{", "}">>)
              /\ currentPlan'.json.error = ""]_vars

\* C21 witness: the plan extracted from a reply of plain text is stored
C21_Witness ==
    /\ chatPhase = "awaiting_plan_feedback"
    /\ currentPlan.text = <<"P", "l", "a", "n", " ", "o", "n", "l", "y", ".">>
    /\ currentPlan.json = JsonValue(<<"{", "}">>)

\* the text has "blockchain" somewhere, in any letter case
ContainsBlockchain(t) == Includes(ToLowerCase(t), <<"b", "l", "o", "c", "k", "c", "h", "a", "i", "n">>)

\* the idea texts that have it
BlockchainTexts == {t \in IdeaTexts : ContainsBlockchain(t)}

\* C22 as stated: every idea text that contains "blockchain", in any letter
\* case and at any position, is rejected as too complex.
C22_BlockchainIsTooComplex ==
    [][\A t \in BlockchainTexts :
          (chatPhase = "awaiting_idea" /\ handleSendMessage(t)) =>
              /\ chatPhase' = "awaiting_idea"
              /\ calls' = calls
              /\ messages'[Len(messages')].id[1] = "complex-idea-"]_vars

\* C22 amended: every idea text that contains "blockchain", in any letter case
\* and at any position, is rejected: as too complex when its trimmed length is
\* at least 15 characters, as too vague when it is shorter.
C22_BlockchainIsRejected ==
    [][\A t \in BlockchainTexts :
          (chatPhase = "awaiting_idea" /\ handleSendMessage(t)) =>
              /\ chatPhase' = "awaiting_idea"
              /\ calls' = calls
              /\ messages'[Len(messages')].id[1] =
                     IF Len(Trim(t)) >= 15 THEN "complex-idea-" ELSE "elaborate-"]_vars

\* C22 witness: a text with <<"b", "l", "o", "c", "k", "c", "h", "a", "i", "n">> in capitals after a prefix was rejected
\* as too complex
C22_Witness ==
    /\ Len(messages) >= 3
    /\ LastMessage.id[1] = "complex-idea-"
    /\ messages[Len(messages) - 1].content = <<"A", " ", "s", "h", "o", "p", " ", "o", "n", " ", "B", "L", "O", "C", "K", "C", "H", "A", "I", "N">>
    /\ chatPhase = "awaiting_idea"

\* the idea texts whose trimmed length is below 15 characters
BelowFifteenTexts == {t \in IdeaTexts : Len(Trim(t)) < 15}

\* C23: every idea text whose trimmed length is below 15 characters, in any
\* capitalization, is rejected as too vague: the phase stays awaiting_idea, no
\* call starts and the guidance message asks for more detail.
C23_ShortIsVague ==
    [][\A t \in BelowFifteenTexts :
          (chatPhase = "awaiting_idea" /\ handleSendMessage(t)) =>
              /\ chatPhase' = "awaiting_idea"
              /\ calls' = calls
              /\ messages'[Len(messages')].id[1] = "elaborate-"]_vars

\* C23 witness: a short text in capitals and a short text padded with white
\* space were both rejected as too vague
C23_Witness ==
    /\ Len(messages) = 5
    /\ messages[2].content = <<"T", "O", "D", "O", " ", "A", "P", "P">>
    /\ messages[3].id[1] = "elaborate-"
    /\ messages[4].content = <<" ", " ", " ", " ", "t", "o", "d", "o", " ", "a", "p", "p", " ", " ", " ", " ", " ", " ">>
    /\ messages[5].id[1] = "elaborate-"
    /\ chatPhase = "awaiting_idea"

\* C24: in every reachable state the phase is one of the eight declared
\* values.
C24_PhaseIsDeclared == chatPhase \in ChatPhase

\* the question messages that wait for an answer
OpenQuestions ==
    {k \in 1..Len(messages) : messages[k].isQuestion /\ messages[k].answered = "none"}

\* C25: at any time at most one question message is open.
C25_OneOpenQuestion == Cardinality(OpenQuestions) <= 1

\* message after is message before, or before was a question and after is
\* the same message with isQuestion false and the answer
SameOrResolved(before, after) ==
    \/ after = before
    \/ /\ before.isQuestion
       /\ \E a \in {"yes", "no"} :
              after = [before EXCEPT !.isQuestion = FALSE, !.answered = a]

\* the list after keeps every message of kept, in order, each one as it was
\* or resolved, and may have more messages at its end
ExtendsList(kept, after) ==
    /\ Len(after) >= Len(kept)
    /\ \A k \in 1..Len(kept) : SameOrResolved(kept[k], after[k])

\* C26 as stated: apart from clear and persona change, no step removes or
\* reorders a message, and the only change to an existing message is
\* isQuestion set to false together with answered.
C26_AppendOnly ==
    [][(handleClearChat \/ onSelectPersona) \/ ExtendsList(messages, messages')]_vars

\* the ids of the loading messages in the list
LoadingIds == {messages[k].id : k \in {j \in 1..Len(messages) : messages[j].isLoading}}

\* C26 amended: apart from clear and persona change, the only messages a step
\* removes are loading messages (the placeholder of the call that settles);
\* the other messages keep their order, and the only change to one of them is
\* isQuestion set to false together with answered.
C26_AppendOnlyButLoading ==
    [][(handleClearChat \/ onSelectPersona)
          \/ \E gone \in SUBSET LoadingIds :
                 ExtendsList(SelectSeq(messages, LAMBDA m : m.id \notin gone), messages')]_vars

\* C26 witness: a question was resolved in place and the placeholder of the
\* plan request was removed when the plan arrived
C26_Witness ==
    /\ Len(messages) >= 4
    /\ messages[3].answered = "yes"
    /\ ~messages[3].isQuestion
    /\ messages[4].id[1] = "plan-text-"
    /\ LoadingIds = {}

\* a response of the model endpoint that the claim calls blocked: a body
\* without candidates, or safety ratings with a value other than NEGLIGIBLE
\* or LOW
HasFlaggedRating(ratings) ==
    \E k \in 1..Len(ratings) : ratings[k] \notin {"NEGLIGIBLE", "LOW"}
IsBlockedPlanReply(reply) ==
    /\ reply.network = "ok" /\ reply.ok
    /\ \/ reply.responseData.candidates = 0
       \/ HasFlaggedRating(reply.responseData.safetyRatings)
IsBlockedQuestionReply(reply) ==
    /\ reply.network = "ok" /\ reply.ok
    /\ \/ reply.body = "noContent"
       \/ HasFlaggedRating(reply.safetyRatings)

\* C27: a model response with no candidates, or with a safety rating other
\* than NEGLIGIBLE or LOW, is never parsed as a plan or as a question list:
\* the step that handles it ends in the error outcome, stores no plan and
\* stores no questions.
C27_BlockedContentNotParsed ==
    [][\A c \in calls :
          /\ \A reply \in PlanReplies :
                 IsBlockedPlanReply(reply) /\ PlanReplyArrives(c, reply) =>
                     /\ ~generateProductPlan(reply).ok
                     /\ chatPhase' = "error_state"
                     /\ UNCHANGED currentPlan
          /\ \A reply \in QuestionReplies :
                 (/\ IsBlockedQuestionReply(reply)
                  /\ c.kind = "getClarifyingQuestions"
                  /\ Settles(c)
                  /\ questionsSettled(c, getClarifyingQuestions(reply))) =>
                     /\ ~getClarifyingQuestions(reply).ok
                     /\ chatPhase' = "error_state"
                     /\ UNCHANGED questionsForUser]_vars

\* C27 for responses without candidates alone
C27_NoCandidatesNotParsed ==
    [][\A c \in calls :
          /\ \A reply \in PlanReplies :
                 (/\ reply.network = "ok" /\ reply.ok
                  /\ reply.responseData.candidates = 0
                  /\ PlanReplyArrives(c, reply)) =>
                     chatPhase' = "error_state" /\ UNCHANGED currentPlan
          /\ \A reply \in QuestionReplies :
                 (/\ reply.network = "ok" /\ reply.ok
                  /\ reply.body = "noContent"
                  /\ c.kind = "getClarifyingQuestions"
                  /\ Settles(c)
                  /\ questionsSettled(c, getClarifyingQuestions(reply))) =>
                     chatPhase' = "error_state" /\ UNCHANGED questionsForUser]_vars

\* C28: whenever the phase is awaiting_question_answer the idea is non-null,
\* questionIndex < total and an open question message exists.
C28_QuestionPhaseCanProgress ==
    chatPhase = "awaiting_question_answer" =>
        /\ ~currentProductIdea.isNull
        /\ currentQuestionIndex < totalQuestionsCount
        /\ OpenQuestions # {}

\* C29: whenever the phase is awaiting_plan_feedback the plan is non-null, and
\* the "no current plan to finalize" message is never emitted.
C29_FeedbackPhaseHasPlan ==
    /\ chatPhase = "awaiting_plan_feedback" => ~currentPlan.isNull
    /\ \A k \in 1..Len(messages) : messages[k].id[1] # "error-no-plan-to-finalize-"

\* C29 witness: an acceptance has reached the detailed-plan request
C29_Witness ==
    /\ \E c \in calls : c.kind = "fetchDetailedPlan" /\ c.planJson = currentPlan.json
    /\ ~currentPlan.isNull
    /\ LastMessage.id[1] = "loading-detailed-plan-"

\* C30: in every state with no call outstanding the message list has no
\* loading message.
C30_NoLoadingWithoutCall ==
    calls = {} => \A k \in 1..Len(messages) : ~messages[k].isLoading

====
